---- MODULE Spec2Model ----
(***************************************************************************)
(* A model of github.com/frrist/demofx: the two Database backends          *)
(* (InMemoryDatabase, PersistentDatabase) with their embedded cache, the   *)
(* MockDatabase test double, the Metrics collector and the UserService     *)
(* request handler with its rate limiter.                                  *)
(*                                                                         *)
(* Logging (Logger.Log) writes to stdout only and is left out.  The        *)
(* time.Sleep calls of Initialize and GetUser only delay the caller; the   *)
(* arrival time of a request is chosen by the environment (Tick).          *)
(***************************************************************************)
EXTENDS Integers, Sequences, FiniteSets, TLC

\* ---------------------------------------------------------------- bounds
MaxCacheSize == 2
MaxCalls == 3
MaxRestarts == 1
MaxTime == 250
MaxRequests == 3
MaxRecords == 3
NumWorkers == 2
MaxConcCalls == 2

\* ------------------------------------------------------------- constants
RateLimitMs == 100

\* The zero time.Time of a new UserService lies far before any clock reading.
ZeroTime == -1000

\* ------------------------------------------------------------ JSON model
\* Ids in the order encoding/json writes map keys (sorted).
KeyOrder == <<"1", "2", "3", "4", "5", "6", "7", "9">>

NoUsers == [k \in {} |-> ""]

Absent == [kind |-> "absent", data |-> <<>>]

\* Before any Initialize there is no file it began with.
NoFile == [kind |-> "none", data |-> <<>>]

Bytes(toks) == [kind |-> "bytes", data |-> toks]

LBrace == [t |-> "punct", v |-> "{"]
RBrace == [t |-> "punct", v |-> "}"]
Colon == [t |-> "punct", v |-> ":"]
Comma == [t |-> "punct", v |-> ","]
Str(s) == [t |-> "str", v |-> s]
Num(s) == [t |-> "num", v |-> s]

RECURSIVE MarshalEntries(_, _)
MarshalEntries(m, i) ==
    IF i > Len(KeyOrder) THEN <<>>
    ELSE LET k == KeyOrder[i]
             rest == MarshalEntries(m, i + 1)
         IN IF k \in DOMAIN m
            THEN <<Str(k), Colon, Str(m[k])>>
                 \o (IF rest = <<>> THEN <<>> ELSE <<Comma>> \o rest)
            ELSE rest

\* json.MarshalIndent of a map[string]string: one object, keys sorted.
\* It cannot fail for this type.
MarshalIndent(m) == <<LBrace>> \o MarshalEntries(m, 1) \o <<RBrace>>

IsValue(tok) == tok.t \in {"str", "num"}

\* The members of an object from position i on: key : value { , key : value } "}"
RECURSIVE ValidMembers(_, _)
ValidMembers(toks, i) ==
    /\ i + 3 <= Len(toks)
    /\ toks[i].t = "str"
    /\ toks[i + 1] = Colon
    /\ IsValue(toks[i + 2])
    /\ \/ (toks[i + 3] = RBrace /\ i + 3 = Len(toks))
       \/ (toks[i + 3] = Comma /\ ValidMembers(toks, i + 4))

\* The syntax check json.Unmarshal makes before it stores anything.
checkValid(toks) ==
    /\ Len(toks) >= 2
    /\ toks[1] = LBrace
    /\ \/ (Len(toks) = 2 /\ toks[2] = RBrace)
       \/ ValidMembers(toks, 2)

\* Storing the members into the map: a later key overwrites an earlier one, a
\* value that is no string leaves the zero string under its key.
RECURSIVE StoreMembers(_, _, _)
StoreMembers(toks, i, m) ==
    IF i + 2 > Len(toks) THEN m
    ELSE LET k == toks[i].v
             v == IF toks[i + 2].t = "str" THEN toks[i + 2].v ELSE ""
             m2 == [x \in DOMAIN m \cup {k} |-> IF x = k THEN v ELSE m[x]]
         IN StoreMembers(toks, i + 4, m2)

HasTypeError(toks) == \E i \in 1..Len(toks) : toks[i].t = "num"

\* json.Unmarshal(data, &d.users): decodes into the existing map.
Unmarshal(toks, into) ==
    IF ~checkValid(toks) THEN [err |-> "syntax error", users |-> into]
    ELSE [err |-> IF HasTypeError(toks) THEN "type error" ELSE "nil",
          users |-> StoreMembers(toks, 2, into)]

\* --------------------------------------------------------------- records
InMemoryUsers == [k \in {"1", "2", "3"} |->
    CASE k = "1" -> "Alice" [] k = "2" -> "Bob" [] OTHER -> "Charlie"]

PersistentUsers == [k \in {"1", "2", "3", "4", "5", "6"} |->
    CASE k = "1" -> "Alice" [] k = "2" -> "Bob" [] k = "3" -> "Charlie"
      [] k = "4" -> "Diana" [] k = "5" -> "Edward" [] OTHER -> "Fiona"]

MockUsers == [k \in {"test1", "test2", "mock"} |->
    CASE k = "test1" -> "Test User 1" [] k = "test2" -> "Test User 2"
      [] OTHER -> "Mock User"]

NotFound == "user not found"

VARIABLES
    backend,        \* which Database implementation is wired in
    cacheEnabled,   \* Features["cache_enabled"]
    CacheSize,      \* config.Database.CacheSize
    enabled,        \* Metrics.enabled
    rateLimiting,   \* UserService.rateLimiting
    ShouldError,    \* MockDatabase.ShouldError
    users,          \* the record map of the backend
    cache,          \* the cache map of the backend
    dataFile,       \* the content of the record file
    initRet,        \* what the last Initialize returned ("none" before)
    closeRet,       \* what the last Close returned ("none" before)
    ret,            \* what the last GetUser returned, and for which id
    GetUserCalls,   \* calls of Database.GetUser
    storeReads,     \* reads of the record map by GetUser
    dbQueries, userLookups, cacheHits, cacheMisses,
    httpRequests, requestDuration,
    stats,          \* what the last GetStats returned
    lastRequest,    \* UserService.lastRequest
    now,            \* the clock
    resp,           \* the last response of GetUserHandler
    passed,         \* requests that passed rate limit and id validation
    requests,       \* requests handled
    initFile,       \* the record file when the last Initialize began
    savedUsers,     \* the record map at the last Close, whether it returned nil,
                    \* and the instance (value of restarts) that closed
    restarts,       \* fresh instances constructed after the first
    accepted,       \* arrival time of the last request not answered 429
    recordCalls,    \* recording calls made on the collector directly
    lastCall,       \* the last recording call made on the collector directly
    lastOp,         \* the last operation called on the backend directly
    appState,       \* where the application's lifecycle stands
    InitializeCalls, \* Initialize calls made by the lifecycle wiring
    CloseCalls,     \* Close calls made by the lifecycle wiring
    thr,            \* per goroutine in GetUser: position, id, locals name, ok
    mu,             \* PersistentDatabase.mu: who holds it for reading, writing
    life,           \* position of the goroutine running Initialize and Close
    fatal,          \* the runtime stopped the process: concurrent map access
    mthr,           \* per goroutine in RecordHTTPRequest or GetStats: position,
                    \* arguments, and what its last snapshot saw per endpoint
    mmu,            \* Metrics.mu: who holds it for reading, writing, who waits
    hthr,           \* per goroutine in GetUserHandler: position, query
                    \* parameter id, local now, number of the request
    admitted        \* requests that got past the rate limit: number, arrival

cfgVars == <<backend, cacheEnabled, CacheSize, enabled, rateLimiting, ShouldError>>
dbVars == <<users, cache, dataFile, initRet, closeRet, ret, GetUserCalls, storeReads>>
counterVars == <<dbQueries, userLookups, cacheHits, cacheMisses>>
httpVars == <<httpRequests, requestDuration>>
svcVars == <<lastRequest, now, resp, passed, requests>>
ghostVars == <<initFile, savedUsers, restarts, accepted, recordCalls>>
wireVars == <<appState, InitializeCalls, CloseCalls>>
rateVars == <<hthr, admitted>>
concVars == <<thr, mu, life, fatal, mthr, mmu, rateVars>>
extVars == <<lastCall, lastOp, wireVars, concVars>>
vars == <<cfgVars, dbVars, counterVars, httpVars, stats, svcVars, ghostVars,
          extVars>>

\* ------------------------------------------------------------- metrics.go
RecordDBQueryAlways == dbQueries' = dbQueries + 1

RecordDBQueryNever == dbQueries' = dbQueries

RecordDBQuery == dbQueries' = IF enabled THEN dbQueries + 1 ELSE dbQueries

RecordUserLookupNever == userLookups' = userLookups

RecordUserLookup == userLookups' = IF enabled THEN userLookups + 1 ELSE userLookups

\* A collector that forgets cache hits.
RecordCacheHitNever == cacheHits' = cacheHits

RecordCacheHit == cacheHits' = IF enabled THEN cacheHits + 1 ELSE cacheHits

\* A collector that counts every miss twice.
RecordCacheMissTwice == cacheMisses' = IF enabled THEN cacheMisses + 2 ELSE cacheMisses

RecordCacheMiss == cacheMisses' = IF enabled THEN cacheMisses + 1 ELSE cacheMisses

Count(m, e) == IF e \in DOMAIN m THEN m[e] ELSE 0

Samples(m, e) == IF e \in DOMAIN m THEN m[e] ELSE <<>>

RecordHTTPRequest(endpoint, duration) ==
    IF ~enabled THEN UNCHANGED <<httpRequests, requestDuration>>
    ELSE /\ httpRequests' =
              [e \in DOMAIN httpRequests \cup {endpoint} |->
                  IF e = endpoint THEN Count(httpRequests, e) + 1
                  ELSE httpRequests[e]]
         /\ requestDuration' =
              [e \in DOMAIN requestDuration \cup {endpoint} |->
                  IF e = endpoint
                  THEN Append(Samples(requestDuration, e), duration)
                  ELSE requestDuration[e]]

RECURSIVE Sum(_)
Sum(q) == IF q = <<>> THEN 0 ELSE Head(q) + Sum(Tail(q))

\* The average GetStats prints for an endpoint: 0 without samples.
avgDuration(endpoint) ==
    LET durations == Samples(requestDuration, endpoint)
    IN IF Len(durations) > 0 THEN Sum(durations) \div Len(durations) ELSE 0

\* A hit rate taken over the misses alone.
hitRateOverMisses ==
    IF cacheMisses > 0 THEN (1000 * cacheHits) \div cacheMisses ELSE 0

\* The hit rate GetStats prints with one decimal ("%.1f": to the nearest
\* tenth, a tie to the even one), in tenths of a percent.
hitRate ==
    LET total == cacheHits + cacheMisses
        q == (1000 * cacheHits) \div total
        r == (1000 * cacheHits) % total
    IN IF total > 0
       THEN IF 2 * r > total \/ (2 * r = total /\ q % 2 = 1) THEN q + 1 ELSE q
       ELSE 0

\* GetStats: the report, by its sections.
GetStats ==
    IF ~enabled THEN [text |-> "Metrics disabled"]
    ELSE [text |-> "=== Application Metrics ===",
          http |-> [e \in DOMAIN httpRequests |->
                       [requests |-> httpRequests[e], avg |-> avgDuration(e)]],
          queries |-> dbQueries,
          hits |-> cacheHits, misses |-> cacheMisses, hitRate |-> hitRate,
          lookups |-> userLookups]

\* ------------------------------------------------------------ the backends
NoRet == [id |-> "", name |-> "", err |-> "none"]

Found(id, name) == [id |-> id, name |-> name, err |-> "nil"]

MissingOtherError(id) == [id |-> id, name |-> "", err |-> "user id not found"]

Missing(id) == [id |-> id, name |-> "", err |-> NotFound]

\* len(d.cache) < d.config.CacheSize
HasRoomOffByOne(c) == Cardinality(DOMAIN c) <= CacheSize

HasRoom(c) == Cardinality(DOMAIN c) < CacheSize

\* An insert that evicts whatever the cache held.
PutEvicting(c, id, name) == [x \in {id} |-> name]

\* An insert that stores the id where the name belongs.
PutId(c, id, name) == [x \in DOMAIN c \cup {id} |-> IF x = id THEN id ELSE c[x]]

\* d.cache[id] = name
Put(c, id, name) == [x \in DOMAIN c \cup {id} |-> IF x = id THEN name ELSE c[x]]

\* A GetUser that uses the cache whatever the feature flag says.
InMemoryGetUserAlwaysCaching(id) ==
    /\ backend = "inmemory"
    /\ GetUserCalls' = GetUserCalls + 1
    /\ RecordDBQuery
    /\ IF id \in DOMAIN cache
       THEN /\ RecordCacheHit
            /\ ret' = Found(id, cache[id])
            /\ UNCHANGED <<cacheMisses, cache, storeReads>>
       ELSE /\ RecordCacheMiss
            /\ UNCHANGED cacheHits
            /\ storeReads' = storeReads + 1
            /\ IF id \in DOMAIN users
               THEN /\ cache' = IF HasRoom(cache)
                                THEN Put(cache, id, users[id]) ELSE cache
                    /\ ret' = Found(id, users[id])
               ELSE /\ ret' = Missing(id)
                    /\ UNCHANGED cache
    /\ UNCHANGED <<users, dataFile>>

InMemoryGetUser(id) ==
    /\ backend = "inmemory"
    /\ GetUserCalls' = GetUserCalls + 1
    /\ RecordDBQuery
    /\ IF cacheEnabled /\ id \in DOMAIN cache
       THEN /\ RecordCacheHit
            /\ ret' = Found(id, cache[id])
            /\ UNCHANGED <<cacheMisses, cache, storeReads>>
       ELSE /\ IF cacheEnabled THEN RecordCacheMiss ELSE UNCHANGED cacheMisses
            /\ UNCHANGED cacheHits
            /\ storeReads' = storeReads + 1
            /\ IF id \in DOMAIN users
               THEN /\ cache' = IF cacheEnabled /\ HasRoom(cache)
                                THEN Put(cache, id, users[id]) ELSE cache
                    /\ ret' = Found(id, users[id])
               ELSE /\ ret' = Missing(id)
                    /\ UNCHANGED cache
    /\ UNCHANGED <<users, dataFile>>

\* A GetUser that remembers in the cache that an id was not found.
PersistentGetUserCachingMissing(id) ==
    /\ backend = "persistent"
    /\ GetUserCalls' = GetUserCalls + 1
    /\ RecordDBQuery
    /\ IF cacheEnabled /\ id \in DOMAIN cache
       THEN /\ RecordCacheHit
            /\ ret' = IF cache[id] = "" THEN Missing(id) ELSE Found(id, cache[id])
            /\ UNCHANGED <<cacheMisses, cache, storeReads>>
       ELSE /\ IF cacheEnabled THEN RecordCacheMiss ELSE UNCHANGED cacheMisses
            /\ UNCHANGED cacheHits
            /\ storeReads' = storeReads + 1
            /\ IF id \in DOMAIN users
               THEN /\ cache' = IF cacheEnabled /\ HasRoom(cache)
                                THEN Put(cache, id, users[id]) ELSE cache
                    /\ ret' = Found(id, users[id])
               ELSE /\ cache' = IF cacheEnabled /\ HasRoom(cache)
                                THEN Put(cache, id, "") ELSE cache
                    /\ ret' = Missing(id)
    /\ UNCHANGED <<users, dataFile>>

PersistentGetUser(id) ==
    /\ backend = "persistent"
    /\ GetUserCalls' = GetUserCalls + 1
    /\ RecordDBQuery
    /\ IF cacheEnabled /\ id \in DOMAIN cache
       THEN /\ RecordCacheHit
            /\ ret' = Found(id, cache[id])
            /\ UNCHANGED <<cacheMisses, cache, storeReads>>
       ELSE /\ IF cacheEnabled THEN RecordCacheMiss ELSE UNCHANGED cacheMisses
            /\ UNCHANGED cacheHits
            /\ storeReads' = storeReads + 1
            /\ IF id \in DOMAIN users
               THEN /\ cache' = IF cacheEnabled /\ HasRoom(cache)
                                THEN Put(cache, id, users[id]) ELSE cache
                    /\ ret' = Found(id, users[id])
               ELSE /\ ret' = Missing(id)
                    /\ UNCHANGED cache
    /\ UNCHANGED <<users, dataFile>>

\* A mock that reports each call to the metrics collector as a query.
MockGetUserRecording(id) ==
    /\ backend = "mock"
    /\ GetUserCalls' = GetUserCalls + 1
    /\ RecordDBQueryAlways
    /\ ret' = IF id \in DOMAIN users THEN Found(id, users[id]) ELSE Missing(id)
    /\ UNCHANGED <<users, cache, dataFile, storeReads, cacheHits, cacheMisses>>

MockGetUser(id) ==
    /\ backend = "mock"
    /\ GetUserCalls' = GetUserCalls + 1
    /\ ret' = IF ShouldError THEN [id |-> id, name |-> "", err |-> "mock error"]
              ELSE IF id \in DOMAIN users THEN Found(id, users[id])
              ELSE Missing(id)
    /\ UNCHANGED <<users, cache, dataFile, storeReads, dbQueries, cacheHits, cacheMisses>>

\* Database.GetUser, dispatched on the implementation behind the interface.
DbGetUser(id) == InMemoryGetUser(id) \/ PersistentGetUser(id) \/ MockGetUser(id)

\* os.WriteFile: it succeeds, or fails before it opened the file, or fails
\* after it truncated the file.
WriteOutcomes == {"ok", "denied", "short"}

WriteFile(old, data, w) ==
    CASE w = "ok" -> Bytes(data)
      [] w = "denied" -> old
      [] OTHER -> Bytes(<<>>)

\* A loadData that takes a missing file for an empty data set.
loadDataIgnoreMissing ==
    IF dataFile.kind = "absent" THEN [err |-> "nil", users |-> users]
    ELSE Unmarshal(dataFile.data, users)

\* loadData: os.ReadFile, then json.Unmarshal into d.users.
loadData ==
    IF dataFile.kind = "absent" THEN [err |-> "no such file", users |-> users]
    ELSE Unmarshal(dataFile.data, users)

\* A saveData that writes the cache map instead of the record map.
saveDataCache(w) == WriteFile(dataFile, MarshalIndent(cache), w)

\* saveData with the outcome w of os.WriteFile: the file afterwards.
saveData(w) == WriteFile(dataFile, MarshalIndent(users'), w)

InMemoryInitialize ==
    /\ backend = "inmemory"
    /\ initRet' = "nil"
    /\ UNCHANGED <<users, cache, dataFile>>

\* An Initialize that writes the record map back after every load.
PersistentInitializeRewrite ==
    /\ backend = "persistent"
    /\ users' = IF loadData.err = "nil" THEN loadData.users ELSE PersistentUsers
    /\ \E w \in WriteOutcomes :
        /\ dataFile' = saveData(w)
        /\ initRet' = IF w = "ok" THEN "nil" ELSE "failed to save initial data"
    /\ UNCHANGED cache

\* An Initialize that ignores the result of saving the seeded records.
PersistentInitializeIgnoreSave ==
    /\ backend = "persistent"
    /\ users' = IF loadData.err = "nil" THEN loadData.users ELSE PersistentUsers
    /\ IF loadData.err = "nil" THEN UNCHANGED dataFile
       ELSE \E w \in WriteOutcomes : dataFile' = saveData(w)
    /\ initRet' = "nil"
    /\ UNCHANGED cache

\* An Initialize that starts with an empty cache on every call.
PersistentInitializeFreshCache ==
    /\ backend = "persistent"
    /\ IF loadData.err = "nil"
       THEN /\ users' = loadData.users
            /\ initRet' = "nil"
            /\ UNCHANGED dataFile
       ELSE /\ users' = PersistentUsers
            /\ \E w \in WriteOutcomes :
                /\ dataFile' = saveData(w)
                /\ initRet' = IF w = "ok" THEN "nil"
                              ELSE "failed to save initial data"
    /\ cache' = NoUsers

PersistentInitialize ==
    /\ backend = "persistent"
    /\ IF loadData.err = "nil"
       THEN /\ users' = loadData.users
            /\ initRet' = "nil"
            /\ UNCHANGED dataFile
       ELSE /\ users' = PersistentUsers
            /\ \E w \in WriteOutcomes :
                /\ dataFile' = saveData(w)
                /\ initRet' = IF w = "ok" THEN "nil"
                              ELSE "failed to save initial data"
    /\ UNCHANGED cache

MockInitialize ==
    /\ backend = "mock"
    /\ initRet' = IF ShouldError THEN "mock initialize error" ELSE "nil"
    /\ UNCHANGED <<users, cache, dataFile>>

\* A Close that releases the record map.
InMemoryCloseClearing ==
    /\ backend = "inmemory"
    /\ closeRet' = "nil"
    /\ savedUsers' = [ok |-> TRUE, m |-> users, inst |-> restarts]
    /\ users' = NoUsers
    /\ UNCHANGED <<cache, dataFile>>

InMemoryClose ==
    /\ backend = "inmemory"
    /\ closeRet' = "nil"
    /\ savedUsers' = [ok |-> TRUE, m |-> users, inst |-> restarts]
    /\ UNCHANGED <<users, cache, dataFile>>

\* A Close that logs a failed write and returns nil.
PersistentCloseSwallow ==
    /\ backend = "persistent"
    /\ UNCHANGED <<users, cache>>
    /\ \E w \in WriteOutcomes :
        /\ dataFile' = saveData(w)
        /\ closeRet' = "nil"
        /\ savedUsers' = [ok |-> w = "ok", m |-> users, inst |-> restarts]

PersistentClose ==
    /\ backend = "persistent"
    /\ UNCHANGED <<users, cache>>
    /\ \E w \in WriteOutcomes :
        /\ dataFile' = saveData(w)
        /\ closeRet' = IF w = "ok" THEN "nil" ELSE "write error"
        /\ savedUsers' = [ok |-> w = "ok", m |-> users, inst |-> restarts]

MockClose ==
    /\ backend = "mock"
    /\ closeRet' = IF ShouldError THEN "mock close error" ELSE "nil"
    /\ savedUsers' = [ok |-> ~ShouldError, m |-> users, inst |-> restarts]
    /\ UNCHANGED <<users, cache, dataFile>>

\* The record map a constructor starts with.
NewUsers ==
    CASE backend = "inmemory" -> InMemoryUsers
      [] backend = "persistent" -> NoUsers
      [] OTHER -> MockUsers

\* NewInMemoryDatabase / NewPersistentDatabase / NewMockDatabase, and NewMetrics:
\* a fresh instance of the backend and of the collector, the record file kept.
Construct ==
    /\ users' = NewUsers
    /\ cache' = NoUsers
    /\ initRet' = "none"
    /\ closeRet' = "none"
    /\ ret' = NoRet
    /\ GetUserCalls' = 0
    /\ storeReads' = 0
    /\ dbQueries' = 0
    /\ userLookups' = 0
    /\ cacheHits' = 0
    /\ cacheMisses' = 0
    /\ initFile' = NoFile
    /\ UNCHANGED dataFile

\* ------------------------------------------------- record files at start
Garbage == Bytes(<<LBrace, Str("1"), Colon>>)

BadType == Bytes(<<LBrace, Str("1"), Colon, Str("Zed"), Comma,
                   Str("2"), Colon, Num("5"), RBrace>>)

OtherUsers == [k \in {"1", "7"} |-> IF k = "1" THEN "Zed" ELSE "Gina"]

InitialFiles ==
    {Absent, Garbage, BadType, Bytes(MarshalIndent(OtherUsers)),
     Bytes(MarshalIndent(PersistentUsers)), Bytes(MarshalIndent(NoUsers))}

CacheSizes == {-1} \cup (0..MaxCacheSize)

NoCounts == [e \in {} |-> 0]

NoStats == [text |-> "none"]

NotSaved == [ok |-> FALSE, m |-> NoUsers, inst |-> 0]

NoneAccepted == [any |-> FALSE, at |-> 0]

NoResp == [id |-> "", status |-> 0, body |-> "", err |-> "none"]

\* Ids asked for: seeded in both backends, in the persistent one only, found
\* only in a record file of an earlier run, and found nowhere.
ReqIds == {"1", "2", "4", "7", "9"}

\* ------------------------------------------- the backends, used directly
Workers == 1..NumWorkers

Idle == [pc |-> "idle", id |-> "", name |-> "", ok |-> FALSE]

\* A goroutine of the HTTP server that is in no handler.
HIdle == [pc |-> "idle", id |-> "", t |-> 0, n |-> 0]

\* The goroutine that runs Initialize and Close, as a holder of the lock.
Life == 0

\* sync.RWMutex, zero value: nobody holds it, no writer waits for it.
Unlocked == [readers |-> {}, writer |-> FALSE, pending |-> FALSE]

MIdle == [pc |-> "idle", endpoint |-> "", duration |-> 0, seen |-> <<>>]

\* Metrics.mu, zero value.
MUnlocked == [readers |-> {}, writer |-> FALSE, waiting |-> {}]

NoCall == [op |-> "none", endpoint |-> ""]

\* Everything but the configuration and the record file, as the constructors
\* (NewInMemoryDatabase, NewPersistentDatabase, NewMockDatabase, NewMetrics,
\* NewUserService) leave it.
FreshState ==
    /\ users = NewUsers
    /\ cache = NoUsers
    /\ initRet = "none"
    /\ closeRet = "none"
    /\ ret = NoRet
    /\ GetUserCalls = 0
    /\ storeReads = 0
    /\ dbQueries = 0
    /\ userLookups = 0
    /\ cacheHits = 0
    /\ cacheMisses = 0
    /\ httpRequests = NoCounts
    /\ requestDuration = NoCounts
    /\ stats = NoStats
    /\ lastRequest = ZeroTime
    /\ now = 0
    /\ resp = NoResp
    /\ passed = 0
    /\ requests = 0
    /\ initFile = NoFile
    /\ savedUsers = NotSaved
    /\ restarts = 0
    /\ accepted = NoneAccepted
    /\ recordCalls = 0
    /\ lastCall = NoCall
    /\ lastOp = "none"
    /\ appState = "new"
    /\ InitializeCalls = 0
    /\ CloseCalls = 0
    /\ thr = [w \in Workers |-> Idle]
    /\ mu = Unlocked
    /\ life = "new"
    /\ fatal = FALSE
    /\ mthr = [w \in Workers |-> MIdle]
    /\ mmu = MUnlocked
    /\ hthr = [w \in Workers |-> HIdle]
    /\ admitted = {}

InitDb ==
    /\ backend \in {"inmemory", "persistent"}
    /\ cacheEnabled \in BOOLEAN
    /\ CacheSize \in CacheSizes
    /\ enabled \in BOOLEAN
    /\ rateLimiting = FALSE
    /\ ShouldError = FALSE
    /\ dataFile \in IF backend = "persistent" THEN InitialFiles ELSE {Absent}
    /\ FreshState

Initialize ==
    /\ InMemoryInitialize \/ PersistentInitialize \/ MockInitialize
    /\ initFile' = dataFile
    /\ UNCHANGED <<cfgVars, closeRet, ret, GetUserCalls, storeReads, counterVars,
                   httpVars, stats, svcVars, savedUsers, restarts, accepted,
                   recordCalls>>
    /\ UNCHANGED extVars

Close ==
    /\ InMemoryClose \/ PersistentClose \/ MockClose
    /\ UNCHANGED <<cfgVars, initRet, ret, GetUserCalls, storeReads, counterVars,
                   httpVars, stats, svcVars, initFile, restarts, accepted,
                   recordCalls>>
    /\ UNCHANGED extVars

GetUser(id) ==
    /\ GetUserCalls < MaxCalls
    /\ DbGetUser(id)
    /\ UNCHANGED <<cfgVars, initRet, closeRet, userLookups, httpVars, stats,
                   svcVars, ghostVars>>
    /\ UNCHANGED extVars

\* The process ends and a new one constructs its backend on the same file.
Restart ==
    /\ restarts < MaxRestarts
    /\ restarts' = restarts + 1
    /\ Construct
    /\ UNCHANGED <<cfgVars, httpVars, stats, svcVars, savedUsers, accepted, recordCalls>>
    /\ UNCHANGED extVars

NextDb ==
    \/ Initialize
    \/ Close
    \/ \E id \in ReqIds : GetUser(id)
    \/ Restart

Spec == InitDb /\ [][NextDb]_vars

\* ------------------------------------------------- claims on the backends
Seeded == IF backend = "inmemory" THEN InMemoryUsers ELSE PersistentUsers

Expected(id) == IF id \in DOMAIN Seeded THEN Found(id, Seeded[id]) ELSE Missing(id)

GetUserStep == GetUserCalls' = GetUserCalls + 1

\* C1: after Initialize returned nil (persistent backend: constructed with no
\* record file), every GetUser returns the seeded name and nil for a seeded id
\* and the empty name and "user not found" for any other id, whatever calls
\* came before and whatever cache_enabled is.
C1_SeededLookup ==
    [][(/\ GetUserStep
        /\ initRet = "nil"
        /\ backend = "persistent" => initFile = Absent)
       => ret' = Expected(ret'.id)]_vars

C1_Witness ==
    /\ backend = "persistent" /\ initFile = Absent /\ initRet = "nil"
    /\ cacheEnabled /\ "4" \in DOMAIN cache
    /\ GetUserCalls = 3
    /\ ret = Missing("9")

\* C2: the cache never holds more entries than cache_size, and none when
\* cache_size <= 0.
C2_CacheBounded ==
    Cardinality(DOMAIN cache) <= (IF CacheSize > 0 THEN CacheSize ELSE 0)

C2_Witness ==
    /\ CacheSize = 2 /\ Cardinality(DOMAIN cache) = 2
    /\ GetUserCalls = 3 /\ ret.err = "nil" /\ ret.id \notin DOMAIN cache

HitStep == cacheEnabled /\ enabled /\ GetUserStep /\ ret'.id \in DOMAIN cache

\* C3, as stated: with cache and metrics enabled, a GetUser call for a key that
\* is in the cache leaves the DB query counter unchanged.
C3_HitLeavesQueries == [][HitStep => dbQueries' = dbQueries]_vars

\* C3, amended: with cache and metrics enabled, a GetUser call for a key that
\* is in the cache increments the DB query counter by exactly one, as the
\* initial miss did, and does not read the record map.
C3_HitCountsQuery ==
    [][HitStep => (dbQueries' = dbQueries + 1 /\ storeReads' = storeReads)]_vars

C3_Witness ==
    /\ cacheEnabled /\ enabled /\ ret.err = "nil" /\ ret.id \in DOMAIN cache
    /\ cacheHits = 2 /\ cacheMisses = 1 /\ dbQueries = 3 /\ storeReads = 1

\* C4: when Close returned nil on an instance whose record map is M, a fresh
\* PersistentDatabase whose Initialize runs on the same file ends with the
\* record map M.
C4_RoundTrip ==
    (/\ backend = "persistent"
     /\ savedUsers.ok /\ savedUsers.inst < restarts
     /\ initRet = "nil")
    => users = savedUsers.m

C4_Witness ==
    /\ backend = "persistent" /\ restarts = 1
    /\ savedUsers = [ok |-> TRUE, m |-> OtherUsers, inst |-> 0]
    /\ initRet = "nil" /\ users = OtherUsers
    /\ ret = Found("7", "Gina")

Corrupt(f) == f.kind = "bytes" /\ Unmarshal(f.data, NoUsers).err # "nil"

\* C5: when the record file exists and is no valid JSON id-to-name map,
\* Initialize returns an error, the backend serves no record and the file is
\* not replaced by a recovered data set.
C5_CorruptFileIsFatal ==
    (backend = "persistent" /\ Corrupt(initFile))
    => (initRet # "nil" /\ dataFile # Bytes(MarshalIndent(PersistentUsers)))

\* C8: GetUser of the in-memory and the persistent backend returns a name it
\* holds under the id with a nil error, or the empty name with the
\* "user not found" error, and nothing else.
C8_OnlyNotFound ==
    [][GetUserStep =>
        \/ /\ ret'.err = "nil"
           /\ \/ (ret'.id \in DOMAIN users /\ ret'.name = users[ret'.id])
              \/ (ret'.id \in DOMAIN cache /\ ret'.name = cache[ret'.id])
        \/ (ret'.err = NotFound /\ ret'.name = "")]_vars

C8_Witness ==
    /\ backend = "inmemory" /\ cacheEnabled /\ cache # NoUsers
    /\ initRet = "none" /\ ret = Missing("4") /\ GetUserCalls = 2

\* ------------------------------------------- the collector, used directly
Endpoints == {"/user", "/metrics"}

Durations == {2, 5}

InitMetrics ==
    /\ backend = "mock"
    /\ cacheEnabled = FALSE
    /\ CacheSize = 0
    /\ enabled \in BOOLEAN
    /\ rateLimiting = FALSE
    /\ ShouldError = FALSE
    /\ dataFile = Absent
    /\ FreshState

Recording ==
    /\ recordCalls < MaxRecords
    /\ recordCalls' = recordCalls + 1
    /\ UNCHANGED <<cfgVars, dbVars, stats, svcVars, initFile, savedUsers,
                   restarts, accepted>>
    /\ UNCHANGED <<lastOp, wireVars, concVars>>

CallRecordHTTPRequest(endpoint, duration) ==
    /\ Recording
    /\ RecordHTTPRequest(endpoint, duration)
    /\ UNCHANGED counterVars
    /\ lastCall' = [op |-> "RecordHTTPRequest", endpoint |-> endpoint]

CallRecordDBQuery ==
    /\ Recording
    /\ RecordDBQuery
    /\ UNCHANGED <<userLookups, cacheHits, cacheMisses, httpVars>>
    /\ lastCall' = [op |-> "RecordDBQuery", endpoint |-> ""]

CallRecordUserLookup ==
    /\ Recording
    /\ RecordUserLookup
    /\ UNCHANGED <<dbQueries, cacheHits, cacheMisses, httpVars>>
    /\ lastCall' = [op |-> "RecordUserLookup", endpoint |-> ""]

CallRecordCacheHit ==
    /\ Recording
    /\ RecordCacheHit
    /\ UNCHANGED <<dbQueries, userLookups, cacheMisses, httpVars>>
    /\ lastCall' = [op |-> "RecordCacheHit", endpoint |-> ""]

CallRecordCacheMiss ==
    /\ Recording
    /\ RecordCacheMiss
    /\ UNCHANGED <<dbQueries, userLookups, cacheHits, httpVars>>
    /\ lastCall' = [op |-> "RecordCacheMiss", endpoint |-> ""]

CallGetStats ==
    /\ stats' = GetStats
    /\ UNCHANGED <<cfgVars, dbVars, counterVars, httpVars, svcVars, ghostVars>>
    /\ UNCHANGED extVars

NextMetrics ==
    \/ \E e \in Endpoints, d \in Durations : CallRecordHTTPRequest(e, d)
    \/ CallRecordDBQuery
    \/ CallRecordUserLookup
    \/ CallRecordCacheHit
    \/ CallRecordCacheMiss
    \/ CallGetStats

SpecMetrics == InitMetrics /\ [][NextMetrics]_vars

\* C6: with metrics_enabled false every recording call leaves the counters
\* and the per-endpoint maps as they were, and GetStats returns exactly
\* "Metrics disabled", after any number and order of recording calls.
C6_DisabledNoOp ==
    ~enabled =>
        /\ dbQueries = 0 /\ userLookups = 0 /\ cacheHits = 0 /\ cacheMisses = 0
        /\ httpRequests = NoCounts /\ requestDuration = NoCounts
        /\ stats \in {NoStats, [text |-> "Metrics disabled"]}

C6_Witness ==
    ~enabled /\ recordCalls = 3 /\ stats = [text |-> "Metrics disabled"]

\* -------------------------------------------------------- the user service
\* s.lastRequest.Add(100 * time.Millisecond).After(now), read too early by one
RateLimitedInclusive == lastRequest + RateLimitMs >= now

\* s.lastRequest.Add(100 * time.Millisecond).After(now)
RateLimited == lastRequest + RateLimitMs > now

\* A check of the id that lets every id through.
MissingIDNever(id) == FALSE

\* userID == ""
MissingID(id) == id = ""

\* What GetUserHandler wrote and returned: every path ends in
\* "return c.String(status, body)", which returns nil once the body is written.
Response(id, status, body) ==
    [id |-> id, status |-> status, body |-> body, err |-> "nil"]

\* A flag test that throttles whatever the feature flag says.
NextLastRequestAlways == now

\* if s.rateLimiting { ... s.lastRequest = now }
NextLastRequest == IF rateLimiting THEN now ELSE lastRequest

\* An error test that treats only "user not found" as a failure.
FailedOnlyNotFound(r) == r.err = NotFound

\* err != nil
Failed(r) == r.err # "nil"

\* A lookup that asks the database a second time when the first call fails.
LookupRetry(id) ==
    /\ RecordUserLookup
    /\ IF backend = "mock" /\ ShouldError
       THEN /\ GetUserCalls' = GetUserCalls + 2
            /\ ret' = [id |-> id, name |-> "", err |-> "mock error"]
            /\ UNCHANGED <<users, cache, dataFile, storeReads, dbQueries,
                           cacheHits, cacheMisses>>
       ELSE DbGetUser(id)
    /\ resp' = IF Failed(ret')
               THEN Response(id, 404, "User not found")
               ELSE Response(id, 200, "User: " \o ret'.name \o "\n")

\* The part of GetUserHandler after validation: count the lookup, ask the
\* database once, answer 404 on any error and 200 with the name otherwise.
Lookup(id) ==
    /\ RecordUserLookup
    /\ DbGetUser(id)
    /\ resp' = IF Failed(ret')
               THEN Response(id, 404, "User not found")
               ELSE Response(id, 200, "User: " \o ret'.name \o "\n")

\* UserService.GetUserHandler for a request with query parameter id, arriving
\* at the time now.
GetUserHandler(id) ==
    IF rateLimiting /\ RateLimited
    THEN /\ resp' = Response(id, 429, "Too many requests")
         /\ UNCHANGED <<lastRequest, userLookups, users, cache, dataFile, ret,
                        GetUserCalls, storeReads, dbQueries, cacheHits,
                        cacheMisses>>
    ELSE /\ lastRequest' = NextLastRequest
         /\ IF MissingID(id)
            THEN /\ resp' = Response(id, 400, "Missing user ID")
                 /\ UNCHANGED <<userLookups, users, cache, dataFile, ret,
                                GetUserCalls, storeReads, dbQueries, cacheHits,
                                cacheMisses>>
            ELSE Lookup(id)

\* Ids asked for over HTTP: none, seeded, a mock user, unknown.
HttpIds == {"", "1", "mock", "9"}

Delays == {99, 100}

SvcFiles == {Absent, Bytes(MarshalIndent(OtherUsers))}

InitService ==
    /\ backend \in {"inmemory", "persistent", "mock"}
    /\ cacheEnabled \in BOOLEAN
    /\ CacheSize = 1
    /\ enabled \in BOOLEAN
    /\ rateLimiting \in BOOLEAN
    /\ ShouldError \in IF backend = "mock" THEN BOOLEAN ELSE {FALSE}
    /\ dataFile \in IF backend = "persistent" THEN SvcFiles ELSE {Absent}
    /\ FreshState

\* Time passes between two requests.
Tick(d) ==
    /\ now + d <= MaxTime
    /\ now' = now + d
    /\ UNCHANGED <<cfgVars, dbVars, counterVars, httpVars, stats, lastRequest,
                   resp, passed, requests, ghostVars>>
    /\ UNCHANGED extVars

\* One request, handled from arrival to response.
Request(id) ==
    /\ requests < MaxRequests
    /\ requests' = requests + 1
    /\ GetUserHandler(id)
    /\ passed' = IF resp'.status \in {429, 400} THEN passed ELSE passed + 1
    /\ accepted' = IF resp'.status = 429 THEN accepted
                   ELSE [any |-> TRUE, at |-> now]
    /\ UNCHANGED <<cfgVars, initRet, closeRet, httpVars, stats, now, initFile,
                   savedUsers, restarts, recordCalls>>
    /\ UNCHANGED extVars

NextService ==
    \/ Initialize
    \/ \E d \in Delays : Tick(d)
    \/ \E id \in HttpIds : Request(id)

SpecService == InitService /\ [][NextService]_vars

RequestStep == requests' = requests + 1

\* The request arrives less than 100ms after the last one not answered 429.
TooSoon == accepted.any /\ now - accepted.at < 100

\* C7: with rate_limiting on and requests handled one at a time, the first
\* request is accepted, one arriving less than 100ms after the last accepted
\* request is answered 429 "Too many requests", and one arriving 100ms or more
\* after it is accepted.
C7_RateLimit ==
    [][(rateLimiting /\ RequestStep) =>
        IF TooSoon THEN resp'.status = 429 /\ resp'.body = "Too many requests"
        ELSE resp'.status # 429]_vars

C7_Witness ==
    /\ rateLimiting /\ requests = 3 /\ resp.status = 429
    /\ accepted = [any |-> TRUE, at |-> 100] /\ now = 199

NoLookup ==
    /\ GetUserCalls' = GetUserCalls
    /\ UNCHANGED <<userLookups, dbQueries, cacheHits, cacheMisses>>

\* C9, as stated: a request with an empty id is answered 400 "Missing user ID"
\* without a call of Database.GetUser and without a change of a counter.
C9_EmptyIdIs400 ==
    [][(RequestStep /\ resp'.id = "") =>
        (resp'.status = 400 /\ resp'.body = "Missing user ID" /\ NoLookup)]_vars

\* C9, amended: a request with an empty id that the rate limiter lets through
\* is answered 400 "Missing user ID", one that it rejects is answered 429; in
\* both cases Database.GetUser is not called and no counter changes.
C9_EmptyIdIs400UnlessLimited ==
    [][(RequestStep /\ resp'.id = "") =>
        /\ IF rateLimiting /\ TooSoon THEN resp'.status = 429
           ELSE resp'.status = 400 /\ resp'.body = "Missing user ID"
        /\ NoLookup]_vars

C9_Witness ==
    /\ resp = Response("", 400, "Missing user ID")
    /\ rateLimiting /\ enabled /\ requests = 3 /\ passed = 1
    /\ userLookups = 1 /\ GetUserCalls = 1

\* C10, as stated: the user-lookup counter equals the number of requests that
\* passed the rate-limit check and the id validation.
C10_LookupsArePassed == userLookups = passed

\* C10, amended: with metrics enabled the user-lookup counter equals the
\* number of requests that passed the rate-limit check and the id validation
\* (with metrics disabled it stays 0), and GetUser is called once for each of
\* them: a request rejected by the rate limiter counts nowhere.
C10_LookupsArePassedIfEnabled ==
    /\ userLookups = IF enabled THEN passed ELSE 0
    /\ GetUserCalls = passed

C10_Witness ==
    /\ enabled /\ rateLimiting /\ resp.status = 429 /\ resp.id = "1"
    /\ requests = 3 /\ passed = 1 /\ userLookups = 1

\* A request that got past the rate limit and the id validation.
PassedStep == RequestStep /\ resp'.status \notin {429, 400}

C12_OneCallPerRequest ==
    [][RequestStep =>
          IF resp'.status \in {429, 400}
          THEN GetUserCalls' = GetUserCalls /\ ret' = ret
          ELSE GetUserCalls' = GetUserCalls + 1 /\ ret'.id = resp'.id]_vars

C12_Witness ==
    /\ requests = 3 /\ passed = 2 /\ GetUserCalls = 2
    /\ resp.status = 404 /\ ret.id = resp.id

\* C14: with metrics enabled a snapshot taken before any request reports 0
\* user lookups and 0 database queries; every request that passes the rate
\* limit and the id validation raises the user-lookup counter by exactly 1,
\* found or not; a lookup served by the mock leaves the query counter alone.
C14_LookupCounted ==
    [][(enabled /\ RequestStep) =>
          /\ requests = 0 => GetStats.lookups = 0 /\ GetStats.queries = 0
          /\ PassedStep => userLookups' = userLookups + 1
          /\ ~PassedStep => userLookups' = userLookups
          /\ backend = "mock" => dbQueries' = dbQueries]_vars

C14_Witness ==
    /\ enabled /\ backend = "mock" /\ requests = 2 /\ resp.status = 404
    /\ GetStats.lookups = 2 /\ GetStats.queries = 0 /\ GetUserCalls = 2

\* C18: with the rate_limiting flag off no request is answered 429, however
\* close together the requests arrive, and lastRequest keeps its zero value.
C18_NoLimitWhenOff ==
    ~rateLimiting => resp.status # 429 /\ lastRequest = ZeroTime

C18_Witness ==
    /\ ~rateLimiting /\ requests = 3 /\ now = 0 /\ passed = 3
    /\ resp.status = 200 /\ lastRequest = ZeroTime

\* The steps of one backend instance: every step but the construction of a
\* new one.
SameInstance == restarts' = restarts

CacheFull == cacheEnabled /\ Cardinality(DOMAIN cache) = CacheSize

\* C15: once the cache holds cache_size entries, a GetUser for a key that is
\* not cached and is in the record map returns the record map's value and
\* does not insert it, and no step of the instance changes the cache from
\* then on; at no time is a cache entry removed or replaced.
C15_FullCacheFrozen ==
    [][SameInstance =>
          /\ \A k \in DOMAIN cache : k \in DOMAIN cache' /\ cache'[k] = cache[k]
          /\ CacheFull => cache' = cache
          /\ (CacheFull /\ GetUserStep /\ ret'.id \notin DOMAIN cache
                 /\ ret'.id \in DOMAIN users)
             => ret' = Found(ret'.id, users[ret'.id])]_vars

C15_Witness ==
    /\ cacheEnabled /\ CacheSize = 2 /\ DOMAIN cache = {"1", "2"}
    /\ GetUserCalls = 3 /\ ret = Found("4", "Diana")

\* C16: with the cache enabled, GetUser for a key that is in the cache returns
\* the cached value without reading the record map, makes one RecordCacheHit
\* call and no RecordCacheMiss call, and leaves the cache and the record map
\* as they were, even when the record map holds another value for the key.
C16_HitServedFromCache ==
    [][(GetUserStep /\ cacheEnabled /\ ret'.id \in DOMAIN cache) =>
          /\ ret' = Found(ret'.id, cache[ret'.id])
          /\ storeReads' = storeReads
          /\ cacheHits' = IF enabled THEN cacheHits + 1 ELSE cacheHits
          /\ cacheMisses' = cacheMisses
          /\ cache' = cache /\ users' = users]_vars

\* The hit on "1" came last: "4" is cached, which only the defaults hold, so
\* the record map was replaced after "1" was cached.
C16_Witness ==
    /\ cacheEnabled /\ enabled /\ GetUserCalls = 3 /\ cacheHits = 1
    /\ ret = Found("1", "Zed") /\ users["1"] = "Alice"
    /\ DOMAIN cache = {"1", "4"}

\* 1 when the recording call just made is the one named, 0 otherwise.
Made(op, endpoint) ==
    IF recordCalls' = recordCalls + 1
       /\ lastCall' = [op |-> op, endpoint |-> endpoint]
    THEN 1 ELSE 0

\* C17: while metrics are enabled no counter (DB queries, user lookups, cache
\* hits, cache misses, each per-endpoint HTTP count) decreases across any
\* step, and each recording call raises its own counter by exactly 1 and no
\* other counter.
C17_CountersMonotone ==
    [][enabled =>
          /\ dbQueries' = dbQueries + Made("RecordDBQuery", "")
          /\ userLookups' = userLookups + Made("RecordUserLookup", "")
          /\ cacheHits' = cacheHits + Made("RecordCacheHit", "")
          /\ cacheMisses' = cacheMisses + Made("RecordCacheMiss", "")
          /\ \A e \in Endpoints :
                Count(httpRequests', e) =
                    Count(httpRequests, e) + Made("RecordHTTPRequest", e)]_vars

C17_Witness ==
    /\ enabled /\ recordCalls = 3 /\ lastCall.op = "RecordCacheMiss"
    /\ cacheMisses = 1 /\ dbQueries = 1 /\ Count(httpRequests, "/user") = 1
    /\ cacheHits = 0 /\ userLookups = 0

\* ------------------------------------------------- the fx lifecycle wiring
InitFx ==
    /\ backend \in {"inmemory", "persistent", "mock"}
    /\ cacheEnabled \in BOOLEAN
    /\ CacheSize = 1
    /\ enabled \in BOOLEAN
    /\ rateLimiting = FALSE
    /\ ShouldError \in IF backend = "mock" THEN BOOLEAN ELSE {FALSE}
    /\ dataFile \in IF backend = "persistent" THEN InitialFiles ELSE {Absent}
    /\ FreshState

\* app.Start: the OnStart hooks in the order they were appended.  The
\* database's hook calls Initialize; when it returns an error the start fails,
\* the server's hook never runs and no OnStop hook is owed to the database.
FxStart ==
    /\ appState = "new"
    /\ InMemoryInitialize \/ PersistentInitialize \/ MockInitialize
    /\ initFile' = dataFile
    /\ InitializeCalls' = InitializeCalls + 1
    /\ appState' = IF initRet' = "nil" THEN "started" ELSE "failed"
    /\ UNCHANGED <<cfgVars, closeRet, ret, GetUserCalls, storeReads, counterVars,
                   httpVars, stats, svcVars, savedUsers, restarts, accepted,
                   recordCalls, lastCall, lastOp, CloseCalls, concVars>>

\* A shutdown whose OnStop hook forgets the database.
FxStopNoClose ==
    /\ appState = "started"
    /\ appState' = "stopped"
    /\ UNCHANGED <<cfgVars, dbVars, counterVars, httpVars, stats, svcVars,
                   ghostVars, lastCall, lastOp, InitializeCalls, CloseCalls,
                   concVars>>

\* app.Stop: the OnStop hooks of the started hooks in reverse order, the
\* server's first and then the database's, which calls Close.
FxStop ==
    /\ appState = "started"
    /\ InMemoryClose \/ PersistentClose \/ MockClose
    /\ CloseCalls' = CloseCalls + 1
    /\ appState' = "stopped"
    /\ UNCHANGED <<cfgVars, initRet, ret, GetUserCalls, storeReads, counterVars,
                   httpVars, stats, svcVars, initFile, restarts, accepted,
                   recordCalls, lastCall, lastOp, InitializeCalls, concVars>>

\* The server answers requests between start and stop.
FxServe(id) ==
    /\ appState = "started"
    /\ Request(id)

NextFx ==
    \/ FxStart
    \/ \E id \in HttpIds : FxServe(id)
    \/ FxStop

SpecFx == InitFx /\ [][NextFx]_vars

\* C13: under the fx lifecycle wiring Initialize and Close are each called
\* once and in order: before the start both counts are 0, after the start
\* Initialize was called once and Close not at all, after the stop each was
\* called once; Close is never called before Initialize.
C13_LifecycleOnce ==
    /\ appState = "new" => InitializeCalls = 0 /\ CloseCalls = 0
    /\ appState \in {"started", "failed"} => InitializeCalls = 1 /\ CloseCalls = 0
    /\ appState = "stopped" => InitializeCalls = 1 /\ CloseCalls = 1
    /\ CloseCalls <= InitializeCalls
    /\ InitializeCalls = 0 <=> initRet = "none"
    /\ CloseCalls = 0 <=> closeRet = "none"

C13_Witness ==
    /\ backend = "mock" /\ appState = "stopped" /\ requests = 1
    /\ InitializeCalls = 1 /\ CloseCalls = 1 /\ closeRet = "nil"

\* ------------------------------------ GetUser, Initialize and Close in steps
\* Goroutines calling GetUser on one backend while another goroutine runs
\* Initialize and Close.  A step is one access to shared memory: an atomic
\* counter, the lock, the cache map, the record map, the file.
ConcIds == {"1", "2", "9"}

ConcFiles == {Absent, Bytes(MarshalIndent(OtherUsers))}

InitConc ==
    /\ backend \in {"inmemory", "persistent"}
    /\ cacheEnabled \in BOOLEAN
    /\ CacheSize = 1
    /\ enabled \in BOOLEAN
    /\ rateLimiting = FALSE
    /\ ShouldError = FALSE
    /\ dataFile \in IF backend = "persistent" THEN ConcFiles ELSE {Absent}
    /\ FreshState

\* What no step of these goroutines touches.
concFrame == <<cfgVars, userLookups, httpVars, stats, svcVars, ghostVars,
               lastCall, lastOp, wireVars, mthr, mmu, rateVars>>

\* A Lock that only waits for a writer to leave.
CanLockShared == ~mu.writer

\* d.mu.Lock() returns: nobody holds the lock.
CanLock == mu.readers = {} /\ ~mu.writer

\* d.mu.RLock() returns: no writer holds the lock or waits for it.
CanRLock == ~mu.writer /\ ~mu.pending

RUnlock(h) == [mu EXCEPT !.readers = @ \ {h}]

At(w, pc) == [thr EXCEPT ![w].pc = pc]

\* GetUser returns r to the caller w.
Return(w, r) == ret' = r /\ thr' = [thr EXCEPT ![w] = Idle]

\* GetUser is entered: metrics.RecordDBQuery().
GBegin(w, id) ==
    /\ ~fatal /\ thr[w].pc = "idle" /\ GetUserCalls < MaxConcCalls
    /\ GetUserCalls' = GetUserCalls + 1
    /\ RecordDBQuery
    /\ thr' = [thr EXCEPT ![w] = [Idle EXCEPT !.pc = "check", !.id = id]]
    /\ UNCHANGED <<users, cache, dataFile, initRet, closeRet, ret, storeReads,
                   cacheHits, cacheMisses, mu, life, fatal, concFrame>>

\* if cached, ok := d.cache[id]; ok { RecordCacheHit; return } RecordCacheMiss
GCheck(w) ==
    /\ ~fatal /\ thr[w].pc = "check"
    /\ IF cacheEnabled /\ thr[w].id \in DOMAIN cache
       THEN /\ RecordCacheHit
            /\ Return(w, Found(thr[w].id, cache[thr[w].id]))
            /\ UNCHANGED cacheMisses
       ELSE /\ IF cacheEnabled THEN RecordCacheMiss ELSE UNCHANGED cacheMisses
            /\ thr' = At(w, IF backend = "persistent" THEN "rlock" ELSE "read")
            /\ UNCHANGED <<cacheHits, ret>>
    /\ UNCHANGED <<users, cache, dataFile, initRet, closeRet, GetUserCalls,
                   storeReads, dbQueries, mu, life, fatal, concFrame>>

\* d.mu.RLock()
GRLock(w) ==
    /\ ~fatal /\ thr[w].pc = "rlock"
    /\ CanRLock
    /\ mu' = [mu EXCEPT !.readers = @ \cup {w}]
    /\ thr' = At(w, "read")
    /\ UNCHANGED <<users, cache, dataFile, initRet, closeRet, ret, GetUserCalls,
                   storeReads, counterVars, life, fatal, concFrame>>

\* name, ok := d.users[id]; d.mu.RUnlock(); a miss returns "user not found".
GRead(w) ==
    /\ ~fatal /\ thr[w].pc = "read"
    /\ storeReads' = storeReads + 1
    /\ mu' = RUnlock(w)
    /\ IF thr[w].id \in DOMAIN users
       THEN /\ thr' = [thr EXCEPT ![w].pc = "room", ![w].ok = TRUE,
                                  ![w].name = users[thr[w].id]]
            /\ UNCHANGED ret
       ELSE Return(w, Missing(thr[w].id))
    /\ UNCHANGED <<users, cache, dataFile, initRet, closeRet, GetUserCalls,
                   counterVars, life, fatal, concFrame>>

\* if d.cacheEnabled && len(d.cache) < d.config.CacheSize
GRoom(w) ==
    /\ ~fatal /\ thr[w].pc = "room"
    /\ IF cacheEnabled /\ HasRoom(cache)
       THEN thr' = At(w, "insert") /\ UNCHANGED ret
       ELSE Return(w, Found(thr[w].id, thr[w].name))
    /\ UNCHANGED <<users, cache, dataFile, initRet, closeRet, GetUserCalls,
                   storeReads, counterVars, mu, life, fatal, concFrame>>

\* Another goroutine is about to read, measure or write the cache map.
Racing(w) ==
    \E v \in Workers \ {w} : thr[v].pc \in {"check", "room", "insert"}

\* d.cache[id] = name; return name, nil.  The map has no guard: when another
\* goroutine's access overlaps the write the runtime may stop the process
\* ("fatal error: concurrent map writes"), or both accesses go through.
GInsert(w) ==
    /\ ~fatal /\ thr[w].pc = "insert"
    /\ \/ /\ cache' = Put(cache, thr[w].id, thr[w].name)
          /\ Return(w, Found(thr[w].id, thr[w].name))
          /\ UNCHANGED fatal
       \/ /\ Racing(w)
          /\ fatal' = TRUE
          /\ UNCHANGED <<cache, ret, thr>>
    /\ UNCHANGED <<users, dataFile, initRet, closeRet, GetUserCalls,
                   storeReads, counterVars, mu, life, concFrame>>

\* InMemoryDatabase.Initialize and Close take no lock and touch no map.
LInitInMemory ==
    /\ ~fatal /\ life = "new"
    /\ InMemoryInitialize
    /\ life' = "ready"
    /\ UNCHANGED <<closeRet, ret, GetUserCalls, storeReads, counterVars, thr, mu,
                   fatal, concFrame>>

LCloseInMemory ==
    /\ ~fatal /\ life = "ready"
    /\ backend = "inmemory"
    /\ closeRet' = "nil"
    /\ life' = "closed"
    /\ UNCHANGED <<users, cache, dataFile, initRet, ret, GetUserCalls, storeReads,
                   counterVars, thr, mu, fatal, concFrame>>

\* Initialize calls loadData, which calls d.mu.Lock(): it takes the lock when
\* it is free, and otherwise waits, keeping new readers out.
LLock ==
    /\ ~fatal /\ life = "new" /\ backend = "persistent"
    /\ IF CanLock
       THEN mu' = [mu EXCEPT !.writer = TRUE] /\ life' = "loading"
       ELSE mu' = [mu EXCEPT !.pending = TRUE] /\ life' = "load.wait"
    /\ UNCHANGED <<dbVars, counterVars, thr, fatal, concFrame>>

\* The waiting Lock returns.
LLockWait ==
    /\ ~fatal /\ life = "load.wait"
    /\ CanLock
    /\ mu' = [mu EXCEPT !.writer = TRUE, !.pending = FALSE]
    /\ life' = "loading"
    /\ UNCHANGED <<dbVars, counterVars, thr, fatal, concFrame>>

\* loadData under the lock: ReadFile, Unmarshal into d.users, Unlock.  A nil
\* error ends Initialize.
LLoad ==
    /\ ~fatal /\ life = "loading"
    /\ users' = loadData.users
    /\ mu' = [mu EXCEPT !.writer = FALSE]
    /\ IF loadData.err = "nil"
       THEN initRet' = "nil" /\ life' = "ready"
       ELSE UNCHANGED initRet /\ life' = "seed"
    /\ UNCHANGED <<cache, dataFile, closeRet, ret, GetUserCalls, storeReads,
                   counterVars, thr, fatal, concFrame>>

\* d.users = map[string]string{...}: Initialize holds no lock here.
LSeed ==
    /\ ~fatal /\ life = "seed"
    /\ users' = PersistentUsers
    /\ life' = "save.rlock"
    /\ UNCHANGED <<cache, dataFile, initRet, closeRet, ret, GetUserCalls,
                   storeReads, counterVars, thr, mu, fatal, concFrame>>

\* Close is called.
LCloseBegin ==
    /\ ~fatal /\ life = "ready" /\ backend = "persistent"
    /\ life' = "close.rlock"
    /\ UNCHANGED <<dbVars, counterVars, thr, mu, fatal, concFrame>>

\* saveData calls d.mu.RLock(), for Initialize or for Close.
LSaveRLock ==
    /\ ~fatal /\ life \in {"save.rlock", "close.rlock"}
    /\ CanRLock
    /\ mu' = [mu EXCEPT !.readers = @ \cup {Life}]
    /\ life' = IF life = "save.rlock" THEN "saving" ELSE "closing"
    /\ UNCHANGED <<dbVars, counterVars, thr, fatal, concFrame>>

\* saveData under the read lock, for Initialize: MarshalIndent, WriteFile,
\* RUnlock.
LSave ==
    /\ ~fatal /\ life = "saving"
    /\ UNCHANGED users
    /\ mu' = RUnlock(Life)
    /\ \E w \in WriteOutcomes :
        /\ dataFile' = saveData(w)
        /\ initRet' = IF w = "ok" THEN "nil" ELSE "failed to save initial data"
        /\ life' = IF w = "ok" THEN "ready" ELSE "failed"
    /\ UNCHANGED <<cache, closeRet, ret, GetUserCalls, storeReads, counterVars,
                   thr, fatal, concFrame>>

\* saveData under the read lock, for Close.
LCloseSave ==
    /\ ~fatal /\ life = "closing"
    /\ UNCHANGED users
    /\ mu' = RUnlock(Life)
    /\ \E w \in WriteOutcomes :
        /\ dataFile' = saveData(w)
        /\ closeRet' = IF w = "ok" THEN "nil" ELSE "write error"
    /\ life' = "closed"
    /\ UNCHANGED <<cache, initRet, ret, GetUserCalls, storeReads, counterVars,
                   thr, fatal, concFrame>>

NextConc ==
    \/ \E w \in Workers, id \in ConcIds : GBegin(w, id)
    \/ \E w \in Workers : GCheck(w)
    \/ \E w \in Workers : GRLock(w)
    \/ \E w \in Workers : GRead(w)
    \/ \E w \in Workers : GRoom(w)
    \/ \E w \in Workers : GInsert(w)
    \/ LInitInMemory
    \/ LCloseInMemory
    \/ LLock
    \/ LLockWait
    \/ LLoad
    \/ LSeed
    \/ LCloseBegin
    \/ LSaveRLock
    \/ LSave
    \/ LCloseSave

SpecConc == InitConc /\ [][NextConc]_vars

\* C19: with two or more goroutines in GetUser on one backend, the cache
\* enabled, the cache never holds more than cache_size entries.
C19_CacheBoundedConcurrent ==
    cacheEnabled => Cardinality(DOMAIN cache) <= CacheSize

\* The goroutine w is between d.mu.RLock() and d.mu.RUnlock() in GetUser.
Reading(w) == thr[w].pc = "read"

\* C20, as stated: in the persistent backend loadData and saveData each run
\* with exclusive access to the record map; while either is in progress no
\* GetUser is reading the record map.
C20_LoadSaveExclusive ==
    (backend = "persistent" /\ life \in {"loading", "saving", "closing"})
        => \A w \in Workers : ~Reading(w)

\* C20, amended: in the persistent backend loadData holds the lock for
\* writing, so while it is in progress no GetUser is reading the record map
\* and nobody else holds the lock; saveData holds it for reading only, which
\* keeps loadData out while GetUser reads may overlap it and one another.
C20_LoadExclusiveSaveShared ==
    backend = "persistent" =>
        /\ life = "loading" =>
              mu.writer /\ mu.readers = {} /\ \A w \in Workers : ~Reading(w)
        /\ life \in {"saving", "closing"} => Life \in mu.readers /\ ~mu.writer
        /\ \A w \in Workers : Reading(w) => w \in mu.readers /\ ~mu.writer
        /\ mu.writer => life = "loading"

C20_Witness ==
    /\ backend = "persistent" /\ life = "closing"
    /\ mu.readers = {Life, 1, 2} /\ Reading(1) /\ Reading(2)

\* ------------------------------------- the backend, call by call, by name
\* A record file written by another program: valid JSON, keys out of order.
Unsorted == Bytes(<<LBrace, Str("7"), Colon, Str("Gina"), Comma,
                    Str("1"), Colon, Str("Zed"), RBrace>>)

LifeFiles == InitialFiles \cup {Unsorted}

LifeIds == {"1", "4", "7", "9"}

InitLife ==
    /\ backend \in {"inmemory", "persistent"}
    /\ cacheEnabled \in BOOLEAN
    /\ CacheSize = 1
    /\ enabled = TRUE
    /\ rateLimiting = FALSE
    /\ ShouldError = FALSE
    /\ dataFile \in IF backend = "persistent" THEN LifeFiles ELSE {Absent}
    /\ FreshState

\* What no call on the backend touches.
lifeFrame == <<cfgVars, httpVars, stats, svcVars, accepted, recordCalls,
               lastCall, wireVars, concVars>>

LifeInitialize ==
    /\ InMemoryInitialize \/ PersistentInitialize
    /\ initFile' = dataFile
    /\ lastOp' = "Initialize"
    /\ UNCHANGED <<closeRet, ret, GetUserCalls, storeReads, counterVars,
                   savedUsers, restarts, lifeFrame>>

LifeClose ==
    /\ InMemoryClose \/ PersistentClose
    /\ lastOp' = "Close"
    /\ UNCHANGED <<initRet, ret, GetUserCalls, storeReads, counterVars, initFile,
                   restarts, lifeFrame>>

LifeGetUser(id) ==
    /\ GetUserCalls < MaxCalls
    /\ DbGetUser(id)
    /\ lastOp' = "GetUser"
    /\ UNCHANGED <<initRet, closeRet, userLookups, initFile, savedUsers, restarts,
                   lifeFrame>>

\* The process ends and a new one constructs its backend on the same file.
LifeRestart ==
    /\ restarts < MaxRestarts
    /\ restarts' = restarts + 1
    /\ Construct
    /\ lastOp' = "none"
    /\ UNCHANGED <<savedUsers, lifeFrame>>

NextLife ==
    \/ LifeInitialize
    \/ LifeClose
    \/ \E id \in LifeIds : LifeGetUser(id)
    \/ LifeRestart

SpecLife == InitLife /\ [][NextLife]_vars

\* A call of the operation op has just returned.
Called(op) == lastOp' = op /\ restarts' = restarts

\* What a reader of the record file finds in it: the record map it holds.
FileHolds(f, m) ==
    /\ f.kind # "absent"
    /\ Unmarshal(f.data, NoUsers) = [err |-> "nil", users |-> m]

\* C21: persistent backend, first run: with the record file absent Initialize
\* sets the record map to the six default records and writes it to the file
\* before it returns nil; whenever Initialize returns nil, the record file
\* holds the record map.
C21_FirstRunSeeds ==
    [][(backend = "persistent" /\ Called("Initialize")) =>
          /\ dataFile = Absent =>
                /\ users' = PersistentUsers
                /\ \/ dataFile' = Bytes(MarshalIndent(PersistentUsers))
                   \/ initRet' # "nil"
          /\ initRet' = "nil" => FileHolds(dataFile', users')]_vars

C21_Witness ==
    /\ backend = "persistent" /\ lastOp = "Initialize" /\ initFile = Absent
    /\ initRet = "nil" /\ users = PersistentUsers
    /\ dataFile = Bytes(MarshalIndent(PersistentUsers))

StopStep == CloseCalls' = CloseCalls + 1

C24_InitializeError ==
    [][(backend = "persistent" /\ Called("Initialize")) =>
          /\ initRet' \in {"nil", "failed to save initial data"}
          /\ initRet' # "nil" <=>
                /\ loadData.err # "nil"
                /\ dataFile' # Bytes(MarshalIndent(PersistentUsers))]_vars

C24_Witness ==
    /\ backend = "persistent" /\ lastOp = "Initialize"
    /\ initFile = Garbage /\ dataFile = Garbage
    /\ initRet = "failed to save initial data" /\ users = PersistentUsers

\* C25: with cache_enabled false a backend's cache is empty in every
\* reachable state, every GetUser call reads the record map, and neither the
\* cache-hit nor the cache-miss counter is ever incremented.
C25_CacheDisabled ==
    ~cacheEnabled =>
        /\ cache = NoUsers
        /\ storeReads = GetUserCalls
        /\ cacheHits = 0 /\ cacheMisses = 0

C25_Witness ==
    /\ ~cacheEnabled /\ enabled /\ CacheSize = 2
    /\ GetUserCalls = 3 /\ storeReads = 3 /\ dbQueries = 3
    /\ ret = Found("1", "Alice") /\ cache = NoUsers

\* ------------------------------- RecordHTTPRequest and GetStats in steps
\* Goroutines calling RecordHTTPRequest and GetStats on one collector.  A
\* step is one access to the mutex or to the per-endpoint maps.
InitMetricsConc ==
    /\ backend = "mock"
    /\ cacheEnabled = FALSE
    /\ CacheSize = 0
    /\ enabled \in BOOLEAN
    /\ rateLimiting = FALSE
    /\ ShouldError = FALSE
    /\ dataFile = Absent
    /\ FreshState

\* What no step of these goroutines touches.
mFrame == <<cfgVars, dbVars, counterVars, svcVars, initFile, savedUsers,
            restarts, accepted, lastCall, lastOp, wireVars, thr, mu, life, fatal,
            rateVars>>

\* An RLock that does not wait for a writer.
CanMRLockAnytime == TRUE

\* m.mu.RLock() returns: no writer holds the mutex or waits for it.
CanMRLock == ~mmu.writer /\ mmu.waiting = {}

\* m.mu.Lock() returns: nobody holds the mutex.
CanMLock == ~mmu.writer /\ mmu.readers = {}

MAt(w, pc) == [mthr EXCEPT ![w].pc = pc]

\* RecordHTTPRequest is called: it returns at once when metrics are disabled
\* and calls m.mu.Lock() otherwise.
MRecordBegin(w, endpoint, duration) ==
    /\ mthr[w].pc = "idle" /\ recordCalls < MaxRecords
    /\ recordCalls' = recordCalls + 1
    /\ IF ~enabled THEN UNCHANGED <<mthr, mmu>>
       ELSE /\ mthr' = [mthr EXCEPT ![w].pc = "lock", ![w].endpoint = endpoint,
                                    ![w].duration = duration]
            /\ mmu' = [mmu EXCEPT !.waiting = @ \cup {w}]
    /\ UNCHANGED <<httpVars, stats, mFrame>>

\* m.mu.Lock() returns.
MLock(w) ==
    /\ mthr[w].pc = "lock"
    /\ CanMLock
    /\ mmu' = [mmu EXCEPT !.writer = TRUE, !.waiting = @ \ {w}]
    /\ mthr' = MAt(w, "new")
    /\ UNCHANGED <<httpVars, stats, recordCalls, mFrame>>

\* if _, ok := m.httpRequests[endpoint]; !ok { ... = &atomic.Int64{} }
MNewKey(w) ==
    /\ mthr[w].pc = "new"
    /\ httpRequests' =
         IF mthr[w].endpoint \in DOMAIN httpRequests THEN httpRequests
         ELSE [e \in DOMAIN httpRequests \cup {mthr[w].endpoint} |->
                  Count(httpRequests, e)]
    /\ mthr' = MAt(w, "add")
    /\ UNCHANGED <<requestDuration, stats, recordCalls, mmu, mFrame>>

\* m.httpRequests[endpoint].Add(1)
MAdd(w) ==
    /\ mthr[w].pc = "add"
    /\ httpRequests' = [httpRequests EXCEPT ![mthr[w].endpoint] = @ + 1]
    /\ mthr' = MAt(w, "append")
    /\ UNCHANGED <<requestDuration, stats, recordCalls, mmu, mFrame>>

\* m.requestDuration[endpoint] = append(...); the deferred m.mu.Unlock()
MAppend(w) ==
    /\ mthr[w].pc = "append"
    /\ requestDuration' =
         [e \in DOMAIN requestDuration \cup {mthr[w].endpoint} |->
             IF e = mthr[w].endpoint
             THEN Append(Samples(requestDuration, e), mthr[w].duration)
             ELSE requestDuration[e]]
    /\ mmu' = [mmu EXCEPT !.writer = FALSE]
    /\ mthr' = MAt(w, "idle")
    /\ UNCHANGED <<httpRequests, stats, recordCalls, mFrame>>

\* GetStats is called: "Metrics disabled", or m.mu.RLock().
MStatsBegin(w) ==
    /\ mthr[w].pc = "idle" /\ recordCalls < MaxRecords
    /\ recordCalls' = recordCalls + 1
    /\ IF ~enabled THEN stats' = GetStats /\ UNCHANGED mthr
       ELSE mthr' = MAt(w, "rlock") /\ UNCHANGED stats
    /\ UNCHANGED <<httpVars, mmu, mFrame>>

\* m.mu.RLock() returns.
MRLock(w) ==
    /\ mthr[w].pc = "rlock"
    /\ CanMRLock
    /\ mmu' = [mmu EXCEPT !.readers = @ \cup {w}]
    /\ mthr' = MAt(w, "snap")
    /\ UNCHANGED <<httpVars, stats, recordCalls, mFrame>>

\* The report is built from the maps as they are; the deferred RUnlock.  seen
\* keeps, per endpoint, the count read and the number of samples averaged.
MSnapshot(w) ==
    /\ mthr[w].pc = "snap"
    /\ stats' = GetStats
    /\ mthr' = [mthr EXCEPT ![w].pc = "idle",
                            ![w].seen = [e \in DOMAIN httpRequests |->
                                [count |-> httpRequests[e],
                                 samples |-> Len(Samples(requestDuration, e))]]]
    /\ mmu' = [mmu EXCEPT !.readers = @ \ {w}]
    /\ UNCHANGED <<httpVars, recordCalls, mFrame>>

NextMetricsConc ==
    \/ \E w \in Workers, e \in Endpoints, d \in Durations : MRecordBegin(w, e, d)
    \/ \E w \in Workers : MLock(w)
    \/ \E w \in Workers : MNewKey(w)
    \/ \E w \in Workers : MAdd(w)
    \/ \E w \in Workers : MAppend(w)
    \/ \E w \in Workers : MStatsBegin(w)
    \/ \E w \in Workers : MRLock(w)
    \/ \E w \in Workers : MSnapshot(w)

SpecMetricsConc == InitMetricsConc /\ [][NextMetricsConc]_vars

\* C26: RecordHTTPRequest and GetStats exclude each other on the per-endpoint
\* maps: every snapshot sees, for every endpoint, a request count equal to
\* the number of latency samples stored for it, and while no recorder holds
\* the mutex the maps themselves agree.
C26_SnapshotConsistent ==
    /\ \A w \in Workers : \A e \in DOMAIN mthr[w].seen :
          mthr[w].seen[e].count = mthr[w].seen[e].samples
    /\ mmu.writer => mmu.readers = {}
    /\ ~mmu.writer =>
          /\ DOMAIN httpRequests = DOMAIN requestDuration
          /\ \A e \in DOMAIN httpRequests :
                httpRequests[e] = Len(requestDuration[e])

\* A snapshot stands, taken between two recordings, while a recorder has
\* counted its request and not yet stored its latency.
C26_Witness ==
    /\ mthr[1].pc = "idle" /\ DOMAIN mthr[1].seen = {"/user"}
    /\ mthr[1].seen["/user"] = [count |-> 1, samples |-> 1]
    /\ mthr[2].pc = "append" /\ mthr[2].endpoint = "/user"
    /\ httpRequests["/user"] = 2 /\ Len(requestDuration["/user"]) = 1

\* C27: in an enabled snapshot the hit rate is 0 when hits + misses = 0, and
\* otherwise hits * 100 / (hits + misses), printed to the nearest tenth of a
\* percent; it lies between 0 and 100.
C27_HitRate ==
    (stats # NoStats /\ stats.text # "Metrics disabled") =>
        LET total == stats.hits + stats.misses
            diff == 2 * total * stats.hitRate - 2000 * stats.hits
        IN /\ total = 0 => stats.hitRate = 0
           /\ -total <= diff /\ diff <= total
           /\ 0 <= stats.hitRate /\ stats.hitRate <= 1000

C27_Witness ==
    /\ enabled /\ stats # NoStats
    /\ stats.hits = 2 /\ stats.misses = 1 /\ stats.hitRate = 667

\* The lifecycle state of the instance: Ready from an Initialize that returned
\* nil until the first Close.
Ready == initRet = "nil" /\ closeRet = "none"

\* C28: a backend serves records only in the Ready state: a GetUser call made
\* before Initialize has returned nil, or after Close, never returns a record
\* name.
C28_ServesOnlyWhenReady ==
    [][(Called("GetUser") /\ ~Ready) => ret'.err # "nil"]_vars

\* C30: records are immutable once seeded or loaded: after Initialize has
\* returned, no GetUser call and no Close call adds, removes or changes an
\* entry of the record map, for either backend and either cache setting.
C30_RecordsImmutable ==
    [][(initRet # "none" /\ (Called("GetUser") \/ Called("Close")))
          => users' = users]_vars

C30_Witness ==
    /\ backend = "persistent" /\ cacheEnabled /\ initRet = "nil"
    /\ lastOp = "Close" /\ closeRet = "nil" /\ GetUserCalls = 2
    /\ users = OtherUsers /\ DOMAIN cache = {"7"}

\* ------------------------------------------------- the traditional wiring
InitMain ==
    /\ backend \in {"inmemory", "persistent"}
    /\ cacheEnabled \in BOOLEAN
    /\ CacheSize = 1
    /\ enabled \in BOOLEAN
    /\ rateLimiting = FALSE
    /\ ShouldError = FALSE
    /\ dataFile \in IF backend = "persistent" THEN InitialFiles ELSE {Absent}
    /\ FreshState

\* What main changes besides its own position.
mainRest == <<cfgVars, dbVars, counterVars, httpVars, stats, svcVars, ghostVars,
              lastCall, lastOp, InitializeCalls, CloseCalls, concVars>>

\* A main that logs the error of Initialize and carries on.
MainInitializeIgnoreError ==
    /\ appState = "new"
    /\ InMemoryInitialize \/ PersistentInitialize
    /\ initFile' = dataFile
    /\ InitializeCalls' = InitializeCalls + 1
    /\ appState' = "initialized"
    /\ UNCHANGED <<cfgVars, closeRet, ret, GetUserCalls, storeReads, counterVars,
                   httpVars, stats, svcVars, savedUsers, restarts, accepted,
                   recordCalls, lastCall, lastOp, CloseCalls, concVars>>

\* if err := db.Initialize(); err != nil { log.Fatal(...) }; defer db.Close()
MainInitialize ==
    /\ appState = "new"
    /\ InMemoryInitialize \/ PersistentInitialize
    /\ initFile' = dataFile
    /\ InitializeCalls' = InitializeCalls + 1
    /\ appState' = IF initRet' = "nil" THEN "initialized" ELSE "aborted"
    /\ UNCHANGED <<cfgVars, closeRet, ret, GetUserCalls, storeReads, counterVars,
                   httpVars, stats, svcVars, savedUsers, restarts, accepted,
                   recordCalls, lastCall, lastOp, CloseCalls, concVars>>

\* NewUserService, NewServer
MainWire ==
    /\ appState = "initialized"
    /\ appState' = "wired"
    /\ UNCHANGED mainRest

\* server.Start() is listening.
MainStart ==
    /\ appState = "wired"
    /\ appState' = "serving"
    /\ UNCHANGED mainRest

\* The server answers a request.
MainServe(id) ==
    /\ appState = "serving"
    /\ Request(id)

\* server.Start() returns an error, at once or later: log.Fatal ends the
\* process, and os.Exit runs no deferred call.
MainFatal ==
    /\ appState \in {"wired", "serving"}
    /\ appState' = "exited"
    /\ UNCHANGED mainRest

NextMain ==
    \/ MainInitialize
    \/ MainWire
    \/ MainStart
    \/ \E id \in HttpIds : MainServe(id)
    \/ MainFatal

SpecMain == InitMain /\ [][NextMain]_vars

\* C29: in the traditional wiring the server starts only after Initialize has
\* returned nil: when Initialize returns an error the process aborts before
\* the user service and the server are created, so no request is ever served
\* by a backend whose Initialize failed.
C29_ServeOnlyAfterInitialize ==
    /\ appState \in {"initialized", "wired", "serving"}
          => initRet = "nil" /\ InitializeCalls = 1
    /\ requests > 0 => initRet = "nil"
    /\ initRet \notin {"none", "nil"}
          => appState = "aborted" /\ requests = 0 /\ resp = NoResp

C29_Witness ==
    /\ backend = "persistent" /\ appState = "aborted" /\ InitializeCalls = 1
    /\ initRet = "failed to save initial data" /\ requests = 0

\* --------------------------------------------------- claims added, C31..C37
\* No goroutine is inside GetUser.
NoCallInProgress == \A w \in Workers : thr[w].pc = "idle"

\* C31: with metrics enabled, in every reachable state, between the steps of
\* concurrent GetUser calls included, cache hits + cache misses <= DB queries;
\* with the cache enabled and no GetUser call in progress the two sides are
\* equal: every GetUser records one query and exactly one of hit or miss.
C31_HitsMissesWithinQueries ==
    enabled =>
        /\ cacheHits + cacheMisses <= dbQueries
        /\ (cacheEnabled /\ NoCallInProgress) =>
               cacheHits + cacheMisses = dbQueries

C31_Witness ==
    /\ enabled /\ cacheEnabled /\ NoCallInProgress
    /\ cacheHits = 1 /\ cacheMisses = 1 /\ dbQueries = 2

\* Every cache entry is an entry of the record map.
CacheAgrees ==
    \A id \in DOMAIN cache : id \in DOMAIN users /\ users[id] = cache[id]

\* C32: in every state reached by Initialize followed by any sequence of
\* GetUser calls on one backend instance, every cache entry (id, value) agrees
\* with the record map: id is a key of the record map and the record map holds
\* the same value for it.  (Stated for every state of an instance on which
\* Initialize has returned and Close was never called.)
C32_CacheAgreesWithRecords ==
    (initRet # "none" /\ closeRet = "none") => CacheAgrees

C32_Witness ==
    /\ initRet = "nil" /\ closeRet = "none" /\ lastOp = "GetUser"
    /\ cacheEnabled /\ cacheHits = 1 /\ GetUserCalls = 3
    /\ cache = [x \in {"7"} |-> "Gina"] /\ ret = Found("7", "Gina")

\* C33: a GetUser call that ends in not-found leaves the cache unchanged: ids
\* absent from the record map are never inserted into the cache, so a repeated
\* lookup of such an id is again a cache miss that reads the record map.  A
\* not-found call was a miss (counted when the cache is enabled) that read the
\* record map, it leaves the cache as it was and the id out of it, and
\* whatever a GetUser call adds to the cache is a key of the record map.
C33_NotFoundLeavesCache ==
    [][Called("GetUser") =>
         /\ \A id \in DOMAIN cache' \ DOMAIN cache : id \in DOMAIN users
         /\ ret'.err = NotFound =>
              /\ cache' = cache
              /\ ret'.id \notin DOMAIN cache'
              /\ ret'.id \notin DOMAIN users
              /\ storeReads' = storeReads + 1
              /\ cacheHits' = cacheHits
              /\ cacheMisses' = cacheMisses + (IF cacheEnabled THEN 1 ELSE 0)]_vars

C33_Witness ==
    /\ backend = "persistent" /\ initRet = "nil" /\ cacheEnabled
    /\ lastOp = "GetUser" /\ ret = Missing("9")
    /\ GetUserCalls = 2 /\ cacheMisses = 2 /\ storeReads = 2
    /\ cache = NoUsers

\* ------------------------------------------------- GetUserHandler in steps
\* The HTTP server runs each request's handler in a goroutine of its own, all
\* on one UserService.  A step is one access to the field s.lastRequest, which
\* no lock guards; the rest of the handler is one step.  A read of the field
\* that overlaps a write compares as the value before or the value after it
\* (Time.After orders two clock readings of one process by their monotonic
\* word alone), which the order of the steps already covers.
RateIds == {"", "1", "9"}

InitRate ==
    /\ backend \in {"inmemory", "mock"}
    /\ cacheEnabled = FALSE
    /\ CacheSize = 1
    /\ enabled \in BOOLEAN
    /\ rateLimiting \in BOOLEAN
    /\ ShouldError = FALSE
    /\ dataFile = Absent
    /\ FreshState

\* What no step of a handler touches.
rateFrame == <<cfgVars, initRet, closeRet, httpVars, stats, now, initFile,
               savedUsers, restarts, accepted, recordCalls, lastCall, lastOp,
               wireVars, thr, mu, life, fatal, mthr, mmu>>

\* s.lastRequest.Add(100 * time.Millisecond).After(now), now the handler's own.
RateLimitedAt(t) == lastRequest + RateLimitMs > t

\* The handler is entered with query parameter id; if s.rateLimiting
\* { now := time.Now() ...
HBegin(w, id) ==
    /\ hthr[w].pc = "idle" /\ requests < MaxRequests
    /\ requests' = requests + 1
    /\ hthr' = [hthr EXCEPT ![w] =
                  [pc |-> IF rateLimiting THEN "check" ELSE "validate",
                   id |-> id, t |-> now, n |-> requests + 1]]
    /\ UNCHANGED <<dbVars, counterVars, lastRequest, resp, passed, admitted,
                   rateFrame>>

\* The read of s.lastRequest and the test: 429, or on to the update.
HCheck(w) ==
    /\ hthr[w].pc = "check"
    /\ IF RateLimitedAt(hthr[w].t)
       THEN /\ resp' = Response(hthr[w].id, 429, "Too many requests")
            /\ hthr' = [hthr EXCEPT ![w] = HIdle]
            /\ UNCHANGED admitted
       ELSE /\ hthr' = [hthr EXCEPT ![w].pc = "update"]
            /\ admitted' = admitted \cup {[n |-> hthr[w].n, at |-> hthr[w].t]}
            /\ UNCHANGED resp
    /\ UNCHANGED <<dbVars, counterVars, lastRequest, passed, requests, rateFrame>>

\* s.lastRequest = now
HUpdate(w) ==
    /\ hthr[w].pc = "update"
    /\ lastRequest' = hthr[w].t
    /\ hthr' = [hthr EXCEPT ![w].pc = "validate"]
    /\ UNCHANGED <<dbVars, counterVars, resp, passed, requests, admitted,
                   rateFrame>>

\* The rest of the handler: 400 for an empty id, else the lookup and its
\* answer.
HFinish(w) ==
    /\ hthr[w].pc = "validate"
    /\ IF MissingID(hthr[w].id)
       THEN /\ resp' = Response(hthr[w].id, 400, "Missing user ID")
            /\ UNCHANGED <<userLookups, users, cache, dataFile, ret,
                           GetUserCalls, storeReads, dbQueries, cacheHits,
                           cacheMisses>>
       ELSE Lookup(hthr[w].id)
    /\ passed' = IF resp'.status = 400 THEN passed ELSE passed + 1
    /\ hthr' = [hthr EXCEPT ![w] = HIdle]
    /\ UNCHANGED <<initRet, closeRet, lastRequest, requests, admitted,
                   cfgVars, httpVars, stats, now, initFile, savedUsers, restarts,
                   accepted, recordCalls, lastCall, lastOp, wireVars, thr, mu,
                   life, fatal, mthr, mmu>>

NextRate ==
    \/ \E d \in Delays : Tick(d)
    \/ \E w \in Workers, id \in RateIds : HBegin(w, id)
    \/ \E w \in Workers : HCheck(w)
    \/ \E w \in Workers : HUpdate(w)
    \/ \E w \in Workers : HFinish(w)

SpecRate == InitRate /\ [][NextRate]_vars

\* C34: with rate limiting enabled and two or more requests handled
\* concurrently by one UserService, the check of lastRequest and its update
\* being separate steps that can interleave, no two accepted requests arrive
\* less than 100ms apart.
C34_AcceptedSpacedConcurrent ==
    rateLimiting =>
        \A a, b \in admitted :
            a.n # b.n => (a.at - b.at >= RateLimitMs \/ b.at - a.at >= RateLimitMs)

\* C35: every write to the persistent backend's record map, replacement of
\* the whole map or change of its content, is performed while holding the
\* backend's write lock, so no GetUser holding the read lock can observe the
\* map while it is being written, including during Initialize.
C35_RecordWritesLocked ==
    [][(backend = "persistent" /\ users' # users) =>
          mu.writer /\ \A w \in Workers : ~Reading(w)]_vars

\* C36: Initialize is idempotent on the persistent backend when file writes
\* succeed and nothing else touches the file: an Initialize call on an
\* instance whose earlier Initialize returned nil (and whose Close, if it was
\* called, wrote the file) returns nil and leaves the record map, the cache
\* and the record file exactly as they were.
C36_InitializeIdempotent ==
    [][(/\ backend = "persistent" /\ Called("Initialize")
        /\ initRet = "nil" /\ closeRet # "write error") =>
          /\ initRet' = "nil"
          /\ users' = users
          /\ cache' = cache
          /\ dataFile' = dataFile]_vars

C36_Witness ==
    /\ backend = "persistent" /\ restarts = 0 /\ lastOp = "Initialize"
    /\ initRet = "nil" /\ closeRet = "none"
    /\ dataFile = Unsorted /\ users = OtherUsers
    /\ cache = [x \in {"7"} |-> "Gina"]

\* C37: in the traditional wiring, once the database's Initialize has returned
\* nil, the database's Close is called before the process ends on every exit
\* path, the path where the server's Start returns an error included.
C37_CloseBeforeExit ==
    (appState = "exited" /\ initRet = "nil") => CloseCalls >= 1

====
